---- MODULE Spec2Model ----
(***************************************************************************)
(* A model of four pieces of the Vencord repository:                       *)
(*   - fetchUserProfile and getUniqueUsername   (src/utils/discord.tsx)    *)
(*   - the oneko plugin's start / stop          (src/plugins/oneko.ts)     *)
(*   - globNativesPlugin and buildOptions       (scripts/build/build.mts)  *)
(*   - the six esbuild.build calls              (scripts/build/build.mjs)  *)
(* Each piece has its own specification; the variables of the other pieces *)
(* stay at their idle values.                                              *)
(***************************************************************************)
EXTENDS Integers, Sequences, FiniteSets, TLC

VARIABLES
    \* ---- fetchUserProfile ----
    store,          \* UserProfileStore: user id -> profile or Undefined
    calls,          \* call id -> the position and locals of one fetchUserProfile call
    effects,        \* call id -> the sequence of effects that call has produced
    \* ---- oneko ----
    started,        \* the plugin manager's view: start() ran last
    stopped,        \* history: stop() has run and start() has not been called since
    fetches,        \* the promise chains begun by start(), each at its next step
    onekoInterval,  \* window.onekoInterval: a timer id or 0 (absent)
    timers,         \* the interval timers that are active
    onekoEls,       \* number of elements with id "oneko" in the document
    nstarts,        \* number of start() calls so far
    \* ---- build ----
    script,         \* which build script runs: "mts" or "mjs"
    watch,          \* the watch flag of the build
    contexts,       \* per bundle index: the stage of its build
    dist,           \* outfile -> the bundles (with their defines) written there
    exitCode,       \* process.exitCode
    \* ---- globNativesPlugin ----
    fs,             \* plugin directory -> Missing or the sequence readdir returns
    npc,            \* position of the onLoad callback
    dirIdx, fileIdx,\* loop positions
    code,           \* the import lines generated so far
    natives,        \* the manifest lines generated so far
    i,              \* the alias counter
    contents,       \* the module returned by onLoad
    \* ---- getUniqueUsername ----
    user,           \* the argument of the current call
    uname,          \* what the call returned
    ucalls          \* number of calls made

profileVars == <<store, calls, effects>>
onekoVars == <<started, stopped, fetches, onekoInterval, timers, onekoEls, nstarts>>
buildVars == <<script, watch, contexts, dist, exitCode>>
nativesVars == <<fs, npc, dirIdx, fileIdx, code, natives, i, contents>>
userVars == <<user, uname, ucalls>>
vars == <<profileVars, onekoVars, buildVars, nativesVars, userVars>>

\* what the actions of one piece leave alone: the variables of the other pieces
ProfileFrame == UNCHANGED <<onekoVars, buildVars, nativesVars, userVars>>
OnekoFrame == UNCHANGED <<profileVars, buildVars, nativesVars, userVars>>
BuildFrame == UNCHANGED <<profileVars, onekoVars, nativesVars, userVars>>
NativesFrame == UNCHANGED <<profileVars, onekoVars, buildVars, userVars>>
UserFrame == UNCHANGED <<profileVars, onekoVars, buildVars, nativesVars>>

Range(s) == {s[k] : k \in DOMAIN s}

(***************************************************************************)
(* JavaScript values                                                       *)
(***************************************************************************)
Undefined == [t |-> "undefined"]
Str(s) == [t |-> "string", v |-> s]

\* the truthiness test of `if (x)` and `a && b`
Truthy(x) == x # Undefined /\ x # Str("")

(***************************************************************************)
(* fetchUserProfile                                  src/utils/discord.tsx *)
(***************************************************************************)
MaxCalls == 2
CallIds == 1..MaxCalls
UserIds == {"u1", "u2"}

\* FetchUserProfileOptions: absent, or an object whose guild_id is absent or an id
OptionsSet == {Undefined} \cup {[t |-> "object", guild_id |-> g] : g \in {Undefined, Str("g1")}}

\* the response bodies the REST API may send for /users/<id>/profile
Bodies(id) ==
    {[user |-> [id |-> id], guild_member |-> m] :
        m \in {Undefined, [t |-> "object", member |-> id]}}

\* a profile as UserProfileStore holds it
Profile(id, from) == [t |-> "profile", userId |-> id, from |-> from]

IdleCall ==
    [pc |-> "idle", id |-> "", options |-> Undefined, atStart |-> Undefined,
     cached |-> Undefined, body |-> Undefined, result |-> Undefined, error |-> ""]

\* UserProfileStore.getUserProfile(id)
getUserProfile(id) == store[id]

\* the test inverted: `if (!cached) return cached;`
CacheHitInverted(cached) == ~Truthy(cached)

\* the test against null only: `if (cached !== null) return cached;`
CacheHitNotNull(cached) == cached # [t |-> "null"]

\* `if (cached) return cached;`
CacheHit(cached) == Truthy(cached)

\* options?.guild_id
OptGuildId(options) == IF options = Undefined THEN Undefined ELSE options.guild_id

\* the query object: the two defaults, then ...options
Query(options) ==
    [with_mutual_guilds |-> FALSE, with_mutual_friends_count |-> FALSE,
     guild_id |-> OptGuildId(options)]

Dispatch(type, payload) == [kind |-> "dispatch", type |-> type, payload |-> payload]
RestGet(id, options) ==
    [kind |-> "rest", url |-> <<"/users/", id, "/profile">>, query |-> Query(options),
     oldFormErrors |-> TRUE]
StoreRead(id) == [kind |-> "read", userId |-> id]

\* lines 124-134: the dispatch of the start event, then the request
StartEffects(id, options) ==
    <<Dispatch("USER_PROFILE_FETCH_START", [userId |-> id]), RestGet(id, options)>>

\* the two dispatches in the other order
SuccessEffectsSwapped(body) ==
    <<Dispatch("USER_PROFILE_FETCH_SUCCESS", body),
      Dispatch("USER_UPDATE", [user |-> body.user])>>

\* lines 136-137: what follows a response
SuccessEffects(body) ==
    <<Dispatch("USER_UPDATE", [user |-> body.user]),
      Dispatch("USER_PROFILE_FETCH_SUCCESS", body)>>

\* lines 138-139
GuildMemberEffects(options, body) ==
    IF Truthy(OptGuildId(options)) /\ Truthy(body.guild_member)
    THEN <<Dispatch("GUILD_MEMBER_PROFILE_UPDATE",
                    [guildId |-> OptGuildId(options), guildMember |-> body.guild_member])>>
    ELSE <<>>

\* a catch that reports the failure, as the host's own fetch does
RejectEffectsReported(id) == <<Dispatch("USER_PROFILE_FETCH_FAILURE", [userId |-> id])>>

\* the await of line 126 stands in no try/catch: a rejection leaves the function
RejectEffects(id) == <<>>

\* the host's UserProfileStore on USER_PROFILE_FETCH_SUCCESS: it keeps the profile
StoreOnFetchSuccess(st, body) ==
    [st EXCEPT ![body.user.id] = Profile(body.user.id, "fetch")]

\* lines 120-134, up to the first await
FetchStart(c, id, options) ==
    /\ calls[c].pc = "idle"
    /\ \A d \in CallIds : d < c => calls[d].pc # "idle"
    /\ LET cached == getUserProfile(id)
           base == [IdleCall EXCEPT !.id = id, !.options = options,
                                    !.atStart = store[id], !.cached = cached]
       IN  IF CacheHit(cached)
           THEN /\ calls' = [calls EXCEPT ![c] = [base EXCEPT !.pc = "returned",
                                                               !.result = cached]]
                /\ UNCHANGED effects
           ELSE /\ calls' = [calls EXCEPT ![c] = [base EXCEPT !.pc = "awaitRest"]]
                /\ effects' = [effects EXCEPT ![c] = @ \o StartEffects(id, options)]
    /\ UNCHANGED store
    /\ ProfileFrame

\* the request succeeded: lines 136-137, up to the await of the dispatch
RestResolve(c, body) ==
    /\ calls[c].pc = "awaitRest"
    /\ body \in Bodies(calls[c].id)
    /\ calls' = [calls EXCEPT ![c].pc = "awaitDispatch", ![c].body = body]
    /\ effects' = [effects EXCEPT ![c] = @ \o SuccessEffects(body)]
    /\ store' = StoreOnFetchSuccess(store, body)
    /\ ProfileFrame

\* the request failed: the call rejects with the request's error
RestReject(c) ==
    /\ calls[c].pc = "awaitRest"
    /\ calls' = [calls EXCEPT ![c].pc = "rejected", ![c].error = "RestError"]
    /\ effects' = [effects EXCEPT ![c] = @ \o RejectEffects(calls[c].id)]
    /\ UNCHANGED store
    /\ ProfileFrame

\* the dispatch completed: lines 138-141
FetchFinish(c) ==
    /\ calls[c].pc = "awaitDispatch"
    /\ calls' = [calls EXCEPT ![c].pc = "returned",
                              ![c].result = getUserProfile(calls[c].id)]
    /\ effects' = [effects EXCEPT ![c] =
                      @ \o GuildMemberEffects(calls[c].options, calls[c].body)
                        \o <<StoreRead(calls[c].id)>>]
    /\ UNCHANGED store
    /\ ProfileFrame

ProfileInit ==
    /\ store \in {[u \in UserIds |-> IF u \in S THEN Profile(u, "cache") ELSE Undefined] :
                     S \in SUBSET UserIds}
    /\ calls = [c \in CallIds |-> IdleCall]
    /\ effects = [c \in CallIds |-> <<>>]

ProfileIdle ==
    /\ store = [u \in UserIds |-> Undefined]
    /\ calls = [c \in CallIds |-> IdleCall]
    /\ effects = [c \in CallIds |-> <<>>]

ProfileNext ==
    \/ \E c \in CallIds, id \in UserIds, o \in OptionsSet : FetchStart(c, id, o)
    \/ \E c \in CallIds : \E b \in Bodies(calls[c].id) : RestResolve(c, b)
    \/ \E c \in CallIds : RestReject(c)
    \/ \E c \in CallIds : FetchFinish(c)


(***************************************************************************)
(* getUniqueUsername                                 src/utils/discord.tsx *)
(***************************************************************************)
MaxUserCalls == 4
Usernames == {"alice", "bob", "0"}
Discriminators == {"0", "00", "0000", "0001", "1234"}

\* the host's User: tag is username#discriminator
Tag(username, discriminator) == <<username, "#", discriminator>>
Users ==
    {[username |-> n, discriminator |-> d, tag |-> Tag(n, d)] :
        n \in Usernames, d \in Discriminators}

\* every all-zero discriminator taken for the new username system
getUniqueUsernameZeros(u) ==
    IF u.discriminator \in {"0", "00", "0000"} THEN Str(<<u.username>>) ELSE Str(u.tag)

\* user.discriminator === "0" ? user.username : user.tag
getUniqueUsername(u) == IF u.discriminator = "0" THEN Str(<<u.username>>) ELSE Str(u.tag)

UserInit ==
    /\ user \in Users
    /\ uname = Undefined
    /\ ucalls = 0

UserIdle ==
    /\ user = [username |-> "alice", discriminator |-> "0", tag |-> Tag("alice", "0")]
    /\ uname = Undefined
    /\ ucalls = 0

\* one call of getUniqueUsername on the current user
CallGetUniqueUsername ==
    /\ uname = Undefined
    /\ uname' = getUniqueUsername(user)
    /\ ucalls' = ucalls + 1
    /\ UNCHANGED user
    /\ UserFrame

\* the caller moves on to another user
NextUser(u) ==
    /\ uname # Undefined
    /\ ucalls < MaxUserCalls
    /\ user' = u
    /\ uname' = Undefined
    /\ UNCHANGED ucalls
    /\ UserFrame

UserNext ==
    \/ CallGetUniqueUsername
    \/ \E u \in Users : NextUser(u)

(***************************************************************************)
(* the oneko plugin                                   src/plugins/oneko.ts *)
(***************************************************************************)
MaxStarts == 3
NoTimer == 0

\* the steps of the promise chain of start(), in order
ChainNext(stage) ==
    CASE stage = "fetch" -> "text"
      [] stage = "text" -> "replace"
      [] stage = "replace" -> "eval"
      [] stage = "eval" -> "done"
      [] OTHER -> stage

OnekoInit ==
    /\ started = FALSE
    /\ stopped = FALSE
    /\ fetches = <<>>
    /\ onekoInterval = NoTimer
    /\ timers = {}
    /\ onekoEls = 0
    /\ nstarts = 0

\* start(): the fetch is begun and start returns; nothing waits for the chain
OnekoStart ==
    /\ ~started
    /\ nstarts < MaxStarts
    /\ started' = TRUE
    /\ stopped' = FALSE
    /\ nstarts' = nstarts + 1
    /\ fetches' = Append(fetches, "fetch")
    /\ UNCHANGED <<onekoInterval, timers, onekoEls>>
    /\ OnekoFrame

\* one of the first three steps of chain k settles: the response, its text, the replace
ChainStep(k) ==
    /\ k \in DOMAIN fetches
    /\ fetches[k] \in {"fetch", "text", "replace"}
    /\ fetches' = [fetches EXCEPT ![k] = ChainNext(@)]
    /\ UNCHANGED <<started, stopped, onekoInterval, timers, onekoEls, nstarts>>
    /\ OnekoFrame

\* the fetch of chain k fails, or its body cannot be read: the chain ends
ChainFail(k) ==
    /\ k \in DOMAIN fetches
    /\ fetches[k] \in {"fetch", "text"}
    /\ fetches' = [fetches EXCEPT ![k] = "failed"]
    /\ UNCHANGED <<started, stopped, onekoInterval, timers, onekoEls, nstarts>>
    /\ OnekoFrame

\* .then(eval): the script appends a div with id "oneko" and sets
\* window.onekoInterval = setInterval(frame, 100)
EvalScript(k) ==
    /\ k \in DOMAIN fetches
    /\ fetches[k] = "eval"
    /\ fetches' = [fetches EXCEPT ![k] = ChainNext(@)]
    /\ onekoEls' = onekoEls + 1
    /\ timers' = timers \cup {k}
    /\ onekoInterval' = k
    /\ UNCHANGED <<started, stopped, nstarts>>
    /\ OnekoFrame

\* stop(): clearInterval, delete window.onekoInterval, remove the element if any
OnekoStop ==
    /\ started
    /\ started' = FALSE
    /\ stopped' = TRUE
    /\ timers' = timers \ {onekoInterval}
    /\ onekoInterval' = NoTimer
    /\ onekoEls' = IF onekoEls > 0 THEN onekoEls - 1 ELSE 0
    /\ UNCHANGED <<fetches, nstarts>>
    /\ OnekoFrame

OnekoNext ==
    \/ OnekoStart
    \/ \E k \in 1..MaxStarts : ChainStep(k)
    \/ \E k \in 1..MaxStarts : ChainFail(k)
    \/ \E k \in 1..MaxStarts : EvalScript(k)
    \/ OnekoStop


(***************************************************************************)
(* the build scripts          scripts/build/build.mts, scripts/build/build.mjs *)
(***************************************************************************)
Bool(b) == [t |-> "boolean", v |-> b]

\* JSON.stringify of a boolean
JSON_stringify_bool(b) == IF b THEN Str("true") ELSE Str("false")

\* a define value that makes the flag the expression true
DefineIsTrue(v) == v \in {Str("true"), Bool(TRUE)}
DefineIsFalse(v) == v \in {Str("false"), Bool(FALSE)}

\* one entry of the list: the fields that tell the bundles apart. host is the
\* section the entry stands in ("Discord Desktop ..." / "Vencord Desktop ...")
Bundle(host, entry, outfile, format, dd, vesktop, plugins) ==
    [host |-> host, entryPoints |-> <<entry>>, outfile |-> outfile, format |-> format,
     IS_DISCORD_DESKTOP |-> dd, IS_VESKTOP |-> vesktop, plugins |-> plugins]

\* buildOptions with the outfile of the first preload entry left in the second
buildOptionsCopied ==
    << Bundle("discordDesktop", "src/main/index.ts", "dist/patcher.js", "cjs",
              JSON_stringify_bool(TRUE), JSON_stringify_bool(FALSE), <<"globNativesPlugin">>),
       Bundle("discordDesktop", "src/Vencord.ts", "dist/renderer.js", "iife",
              JSON_stringify_bool(TRUE), JSON_stringify_bool(FALSE),
              <<"globPlugins(discordDesktop)">>),
       Bundle("discordDesktop", "src/preload.ts", "dist/preload.js", "cjs",
              JSON_stringify_bool(TRUE), JSON_stringify_bool(FALSE), <<>>),
       Bundle("vencordDesktop", "src/main/index.ts", "dist/vencordDesktopMain.js", "cjs",
              JSON_stringify_bool(FALSE), JSON_stringify_bool(TRUE), <<"globNativesPlugin">>),
       Bundle("vencordDesktop", "src/Vencord.ts", "dist/vencordDesktopRenderer.js", "iife",
              JSON_stringify_bool(FALSE), JSON_stringify_bool(TRUE),
              <<"globPlugins(vencordDesktop)">>),
       Bundle("vencordDesktop", "src/preload.ts", "dist/preload.js", "cjs",
              JSON_stringify_bool(FALSE), JSON_stringify_bool(TRUE), <<>>) >>

\* build.mts, buildOptions
buildOptions ==
    << Bundle("discordDesktop", "src/main/index.ts", "dist/patcher.js", "cjs",
              JSON_stringify_bool(TRUE), JSON_stringify_bool(FALSE), <<"globNativesPlugin">>),
       Bundle("discordDesktop", "src/Vencord.ts", "dist/renderer.js", "iife",
              JSON_stringify_bool(TRUE), JSON_stringify_bool(FALSE),
              <<"globPlugins(discordDesktop)">>),
       Bundle("discordDesktop", "src/preload.ts", "dist/preload.js", "cjs",
              JSON_stringify_bool(TRUE), JSON_stringify_bool(FALSE), <<>>),
       Bundle("vencordDesktop", "src/main/index.ts", "dist/vencordDesktopMain.js", "cjs",
              JSON_stringify_bool(FALSE), JSON_stringify_bool(TRUE), <<"globNativesPlugin">>),
       Bundle("vencordDesktop", "src/Vencord.ts", "dist/vencordDesktopRenderer.js", "iife",
              JSON_stringify_bool(FALSE), JSON_stringify_bool(TRUE),
              <<"globPlugins(vencordDesktop)">>),
       Bundle("vencordDesktop", "src/preload.ts", "dist/vencordDesktopPreload.js", "cjs",
              JSON_stringify_bool(FALSE), JSON_stringify_bool(TRUE), <<>>) >>

\* build.mjs: the arguments of the six esbuild.build calls
mjsBuilds ==
    << Bundle("discordDesktop", "src/main/index.ts", "dist/patcher.js", "cjs",
              Bool(TRUE), Bool(FALSE), <<>>),
       Bundle("discordDesktop", "src/Vencord.ts", "dist/renderer.js", "iife",
              Bool(TRUE), Bool(FALSE), <<"globPlugins(discordDesktop)">>),
       Bundle("discordDesktop", "src/preload.ts", "dist/preload.js", "cjs",
              Bool(TRUE), Bool(FALSE), <<>>),
       Bundle("vencordDesktop", "src/main/index.ts", "dist/vencordDesktopMain.js", "cjs",
              Bool(FALSE), Bool(TRUE), <<>>),
       Bundle("vencordDesktop", "src/Vencord.ts", "dist/vencordDesktopRenderer.js", "iife",
              Bool(FALSE), Bool(TRUE), <<"globPlugins(vencordDesktop)">>),
       Bundle("vencordDesktop", "src/preload.ts", "dist/vencordDesktopPreload.js", "cjs",
              Bool(FALSE), Bool(TRUE), <<>>) >>

\* the bundles the running script defines
Bundles == IF script = "mts" THEN buildOptions ELSE mjsBuilds

Outfiles == {buildOptions[k].outfile : k \in DOMAIN buildOptions}
               \cup {mjsBuilds[k].outfile : k \in DOMAIN mjsBuilds}

BuildInit ==
    /\ script \in {"mts", "mjs"}
    /\ watch \in BOOLEAN
    /\ contexts = [k \in DOMAIN Bundles |-> "pending"]
    /\ dist = [f \in Outfiles |-> {}]
    /\ exitCode = 0

BuildIdle ==
    /\ script = "mts"
    /\ watch = FALSE
    /\ contexts = [k \in DOMAIN buildOptions |-> "pending"]
    /\ dist = [f \in Outfiles |-> {}]
    /\ exitCode = 0

\* what a finished build leaves at its outfile
Written(k) ==
    [bundle |-> k, IS_DISCORD_DESKTOP |-> Bundles[k].IS_DISCORD_DESKTOP,
     IS_VESKTOP |-> Bundles[k].IS_VESKTOP]

\* build.mts: buildOptions.map(makeContextPromise), one context settles
MakeContext(k) ==
    /\ script = "mts"
    /\ k \in DOMAIN Bundles
    /\ contexts[k] = "pending"
    /\ contexts' = [contexts EXCEPT ![k] = "context"]
    /\ UNCHANGED <<script, watch, dist, exitCode>>
    /\ BuildFrame

\* build.mts: makeBuildPromise(await contextPromise, buildOptions[buildIndex], watchOpts)
MakeBuild(k) ==
    /\ script = "mts"
    /\ k \in DOMAIN Bundles
    /\ contexts[k] = "context"
    /\ contexts' = [contexts EXCEPT ![k] = "built"]
    /\ dist' = [dist EXCEPT ![Bundles[k].outfile] = @ \cup {Written(k)}]
    /\ UNCHANGED <<script, watch, exitCode>>
    /\ BuildFrame

\* build.mts: if (!watch), once every build is done, each context is disposed
Dispose(k) ==
    /\ script = "mts"
    /\ ~watch
    /\ k \in DOMAIN Bundles
    /\ \A j \in DOMAIN Bundles : contexts[j] \in {"built", "disposed"}
    /\ contexts[k] = "built"
    /\ contexts' = [contexts EXCEPT ![k] = "disposed"]
    /\ UNCHANGED <<script, watch, dist, exitCode>>
    /\ BuildFrame

\* build.mjs: one esbuild.build call of the Promise.all succeeds
EsbuildBuild(k) ==
    /\ script = "mjs"
    /\ k \in DOMAIN Bundles
    /\ contexts[k] = "pending"
    /\ contexts' = [contexts EXCEPT ![k] = "built"]
    /\ dist' = [dist EXCEPT ![Bundles[k].outfile] = @ \cup {Written(k)}]
    /\ UNCHANGED <<script, watch, exitCode>>
    /\ BuildFrame

\* build.mjs: one esbuild.build call fails; the catch makes ci fail unless watching
EsbuildFail(k) ==
    /\ script = "mjs"
    /\ k \in DOMAIN Bundles
    /\ contexts[k] = "pending"
    /\ contexts' = [contexts EXCEPT ![k] = "failed"]
    /\ exitCode' = IF ~watch THEN 1 ELSE exitCode
    /\ UNCHANGED <<script, watch, dist>>
    /\ BuildFrame

BuildNext ==
    \/ \E k \in DOMAIN buildOptions : MakeContext(k)
    \/ \E k \in DOMAIN buildOptions : MakeBuild(k)
    \/ \E k \in DOMAIN buildOptions : Dispose(k)
    \/ \E k \in DOMAIN mjsBuilds : EsbuildBuild(k)
    \/ \E k \in DOMAIN mjsBuilds : EsbuildFail(k)


(***************************************************************************)
(* globNativesPlugin, the onLoad callback          scripts/build/build.mts *)
(***************************************************************************)
MaxEntries == 2
Missing == [exists |-> FALSE, entries |-> <<>>]
NativeFiles == {"native.ts", "native/index.ts"}
PluginNames == {"PluginA", "PluginB"}

\* const pluginDirs = ["plugins", "userplugins"]
pluginDirs == <<"plugins", "userplugins">>

\* what readdir may return for a directory: entries with distinct names, each
\* holding any of the two native files
Nth(S, k) == CHOOSE n \in S : Cardinality({m \in S : m < n}) = k - 1
Listings ==
    UNION {
        { [exists |-> TRUE,
           entries |-> [k \in 1..Cardinality(S) |->
                          [name |-> Nth(S, k), files |-> F[Nth(S, k)]]]] :
          F \in [S -> SUBSET NativeFiles] } :
        S \in SUBSET (1..MaxEntries) }

\* readdir(dirPath, { withFileTypes: true })
readdir(dirPath) == fs[dirPath[2]].entries

\* join("src", dir)
DirPath(dir) == <<"src", dir>>

\* exists(path), for a directory path and for a file inside a plugin entry
existsDir(dirPath) == fs[dirPath[2]].exists
existsFile(dirPath, fileName, rel) ==
    /\ fs[dirPath[2]].exists
    /\ \E e \in Range(fs[dirPath[2]].entries) : e.name = fileName /\ rel \in e.files

\* the test of line 79, negated: the entry holds a native module
HasNative(dirPath, fileName) ==
    ~(~existsFile(dirPath, fileName, "native.ts")
        /\ ~existsFile(dirPath, fileName, "native/index.ts"))

\* const mod = `p${i}`
Mod(n) == <<"p", n>>

\* line 85: one import line
ImportLine(mod, dir, fileName) ==
    [alias |-> mod, from |-> <<".", dir, fileName, "native">>]

\* line 86: one manifest line, keyed by JSON.stringify(pluginName)
NativeLine(pluginName, mod) == [key |-> <<"\"", pluginName, "\"">>, value |-> mod]

\* the i++ forgotten
NextAliasStuck(n) == n

\* the alias counter after an entry was added
NextAlias(n) == n + 1

NativesInit ==
    /\ fs \in [Range(pluginDirs) -> {Missing} \cup Listings]
    /\ npc = "dir"
    /\ dirIdx = 1
    /\ fileIdx = 1
    /\ code = <<>>
    /\ natives = <<>>
    /\ i = 0
    /\ contents = Undefined

NativesIdle ==
    /\ fs = [d \in Range(pluginDirs) |-> Missing]
    /\ npc = "dir"
    /\ dirIdx = 1
    /\ fileIdx = 1
    /\ code = <<>>
    /\ natives = <<>>
    /\ i = 0
    /\ contents = Undefined

\* lines 70-73: the next directory; one that does not exist is skipped
EnterDir ==
    /\ npc = "dir"
    /\ dirIdx <= Len(pluginDirs)
    /\ IF ~existsDir(DirPath(pluginDirs[dirIdx]))
       THEN /\ dirIdx' = dirIdx + 1
            /\ UNCHANGED <<npc, fileIdx>>
       ELSE /\ npc' = "file"
            /\ fileIdx' = 1
            /\ UNCHANGED dirIdx
    /\ UNCHANGED <<fs, code, natives, i, contents>>
    /\ NativesFrame

\* lines 74-88: one entry of the directory; resolvePluginName returns some name
VisitFile ==
    /\ npc = "file"
    /\ fileIdx <= Len(readdir(DirPath(pluginDirs[dirIdx])))
    /\ LET dir == pluginDirs[dirIdx]
           dirPath == DirPath(dir)
           fileName == readdir(dirPath)[fileIdx].name
           mod == Mod(i)
       IN  IF ~HasNative(dirPath, fileName)
           THEN UNCHANGED <<code, natives, i>>
           ELSE \E pluginName \in PluginNames :
                /\ code' = Append(code, ImportLine(mod, dir, fileName))
                /\ natives' = Append(natives, NativeLine(pluginName, mod))
                /\ i' = NextAlias(i)
    /\ fileIdx' = fileIdx + 1
    /\ UNCHANGED <<fs, npc, dirIdx, contents>>
    /\ NativesFrame

\* the inner loop ends: on to the next directory
LeaveDir ==
    /\ npc = "file"
    /\ fileIdx > Len(readdir(DirPath(pluginDirs[dirIdx])))
    /\ npc' = "dir"
    /\ dirIdx' = dirIdx + 1
    /\ UNCHANGED <<fs, fileIdx, code, natives, i, contents>>
    /\ NativesFrame

\* lines 90-94: the module is returned
ReturnContents ==
    /\ npc = "dir"
    /\ dirIdx > Len(pluginDirs)
    /\ npc' = "done"
    /\ contents' = [imports |-> code, exportDefault |-> natives, resolveDir |-> "./src"]
    /\ UNCHANGED <<fs, dirIdx, fileIdx, code, natives, i>>
    /\ NativesFrame

NativesNext ==
    \/ EnterDir
    \/ VisitFile
    \/ LeaveDir
    \/ ReturnContents

(***************************************************************************)
(* Specifications                                                          *)
(***************************************************************************)
InitProfile == ProfileInit /\ OnekoInit /\ BuildIdle /\ NativesIdle /\ UserIdle
SpecProfile == InitProfile /\ [][ProfileNext]_vars

InitOneko == ProfileIdle /\ OnekoInit /\ BuildIdle /\ NativesIdle /\ UserIdle
SpecOneko == InitOneko /\ [][OnekoNext]_vars

InitBuild == ProfileIdle /\ OnekoInit /\ BuildInit /\ NativesIdle /\ UserIdle
SpecBuild == InitBuild /\ [][BuildNext]_vars

InitNatives == ProfileIdle /\ OnekoInit /\ BuildIdle /\ NativesInit /\ UserIdle
SpecNatives == InitNatives /\ [][NativesNext]_vars

InitUser == ProfileIdle /\ OnekoInit /\ BuildIdle /\ NativesIdle /\ UserInit
SpecUser == InitUser /\ [][UserNext]_vars

Spec == SpecProfile

(***************************************************************************)
(* Properties                                                              *)
(***************************************************************************)
Hosts == {"discordDesktop", "vencordDesktop"}
EntryFiles == {"src/main/index.ts", "src/Vencord.ts", "src/preload.ts"}

\* exactly one of the two flags is true, and it is the one of the host
FlagsMatch(host, dd, vesktop) ==
    /\ DefineIsTrue(dd) \/ DefineIsFalse(dd)
    /\ DefineIsTrue(vesktop) \/ DefineIsFalse(vesktop)
    /\ DefineIsTrue(dd) # DefineIsTrue(vesktop)
    /\ DefineIsTrue(dd) <=> host = "discordDesktop"
    /\ DefineIsTrue(vesktop) <=> host = "vencordDesktop"

\* C1: the build defines exactly six bundles, one main, one renderer and one preload
\* bundle for each of the two hosts; the six outfiles are pairwise distinct; in every
\* bundle exactly one of IS_DISCORD_DESKTOP and IS_VESKTOP is true, the one of the
\* bundle's host. So no outfile is ever written by two bundles, and what is written
\* carries the flags of its host.
C1_SixBundles ==
    /\ Len(Bundles) = 6
    /\ \A h \in Hosts, e \in EntryFiles :
          Cardinality({k \in DOMAIN Bundles :
                          Bundles[k].host = h /\ Bundles[k].entryPoints = <<e>>}) = 1
    /\ \A j, k \in DOMAIN Bundles : j # k => Bundles[j].outfile # Bundles[k].outfile
    /\ \A k \in DOMAIN Bundles :
          FlagsMatch(Bundles[k].host, Bundles[k].IS_DISCORD_DESKTOP, Bundles[k].IS_VESKTOP)
    /\ \A f \in DOMAIN dist :
          /\ Cardinality(dist[f]) <= 1
          /\ \A w \in dist[f] :
                FlagsMatch(Bundles[w.bundle].host, w.IS_DISCORD_DESKTOP, w.IS_VESKTOP)
    /\ \A k \in DOMAIN Bundles :
          contexts[k] \in {"built", "disposed"} =>
              \E w \in dist[Bundles[k].outfile] : w.bundle = k

\* all six bundles of build.mts have been built and written, each to its own outfile
C1_Witness ==
    /\ script = "mts"
    /\ \A k \in DOMAIN Bundles : contexts[k] \in {"built", "disposed"}
    /\ Cardinality({f \in DOMAIN dist : dist[f] # {}}) = 6

\* the directory entries that hold native.ts or native/index.ts
NativeEntries ==
    {de \in Range(pluginDirs) \X (1..MaxEntries) :
        /\ fs[de[1]].exists
        /\ \E e \in Range(fs[de[1]].entries) :
              e.name = de[2] /\ e.files \cap NativeFiles # {}}

\* C2: the generated module has exactly one import and one manifest entry for each
\* directory entry that holds native.ts or native/index.ts and none for any other; a
\* directory that does not exist contributes nothing; the k-th entry is keyed by a
\* resolved plugin name and bound to the alias p<k-1>, so no two share an alias.
C2_NativesManifest ==
    /\ i = Len(code) /\ i = Len(natives)
    /\ \A j, k \in DOMAIN code : j # k => code[j].alias # code[k].alias
    /\ npc = "done" =>
          /\ contents.imports = code /\ contents.exportDefault = natives
          /\ Len(code) = Cardinality(NativeEntries)
          /\ \A de \in NativeEntries :
                Cardinality({k \in DOMAIN code :
                                code[k].from = <<".", de[1], de[2], "native">>}) = 1
          /\ \A k \in DOMAIN code :
                /\ \E de \in NativeEntries : code[k].from = <<".", de[1], de[2], "native">>
                /\ code[k].alias = <<"p", k - 1>>
                /\ natives[k].value = <<"p", k - 1>>
                /\ \E n \in PluginNames : natives[k].key = <<"\"", n, "\"">>

\* a finished run over two existing directories: three native entries, one entry
\* without a native module, and aliases counted across both directories
C2_Witness ==
    /\ npc = "done"
    /\ Len(contents.imports) = 3
    /\ contents.imports[3].from[2] = "userplugins"
    /\ contents.imports[1].from[2] = "plugins"
    /\ \E d \in Range(pluginDirs) : \E e \in Range(fs[d].entries) : e.files = {}

RestCount(e) == Cardinality({k \in DOMAIN e : e[k].kind = "rest"})
DispatchTypes(e) == {e[k].type : k \in {j \in DOMAIN e : e[j].kind = "dispatch"}}

\* C3: one call issues at most one REST request; if the request fails the call rejects
\* with the request's error after USER_PROFILE_FETCH_START was dispatched, and it
\* dispatches nothing else: no USER_UPDATE, USER_PROFILE_FETCH_SUCCESS,
\* GUILD_MEMBER_PROFILE_UPDATE, and no failure event.
C3_NoRetryNoRecovery ==
    \A c \in CallIds :
        /\ RestCount(effects[c]) <= 1
        /\ calls[c].pc = "rejected" =>
              /\ calls[c].error = "RestError"
              /\ Len(effects[c]) = 2
              /\ effects[c][1] = [kind |-> "dispatch", type |-> "USER_PROFILE_FETCH_START",
                                  payload |-> [userId |-> calls[c].id]]
              /\ effects[c][2].kind = "rest"
              /\ DispatchTypes(effects[c]) = {"USER_PROFILE_FETCH_START"}

\* a call whose request failed
C3_Witness == \E c \in CallIds : calls[c].pc = "rejected"

\* C5: when UserProfileStore already holds a profile for the id, the call returns that
\* profile and has no other effect, whatever the options.
C5_CachedNoEffect ==
    \A c \in CallIds :
        (calls[c].pc # "idle" /\ calls[c].atStart # Undefined) =>
            /\ calls[c].pc = "returned"
            /\ calls[c].result = calls[c].atStart
            /\ effects[c] = <<>>

\* a call with a guild_id option that found the profile in the store
C5_Witness ==
    \E c \in CallIds :
        /\ calls[c].pc = "returned"
        /\ calls[c].atStart = Profile(calls[c].id, "cache")
        /\ calls[c].options # Undefined
        /\ calls[c].options.guild_id = Str("g1")

\* the effects of a call on a cache miss, as the claim lists them, up to position n
ExpectedEffects(c) ==
    LET id == calls[c].id
        o == calls[c].options
        b == calls[c].body
        gid == IF o = Undefined THEN Undefined ELSE o.guild_id
        both == gid # Undefined /\ b.guild_member # Undefined
        head == << [kind |-> "dispatch", type |-> "USER_PROFILE_FETCH_START",
                    payload |-> [userId |-> id]],
                   [kind |-> "rest", url |-> <<"/users/", id, "/profile">>,
                    query |-> [with_mutual_guilds |-> FALSE,
                               with_mutual_friends_count |-> FALSE, guild_id |-> gid],
                    oldFormErrors |-> TRUE] >>
        mid == << [kind |-> "dispatch", type |-> "USER_UPDATE",
                   payload |-> [user |-> b.user]],
                  [kind |-> "dispatch", type |-> "USER_PROFILE_FETCH_SUCCESS",
                   payload |-> b] >>
        tail == (IF both
                 THEN << [kind |-> "dispatch", type |-> "GUILD_MEMBER_PROFILE_UPDATE",
                          payload |-> [guildId |-> gid, guildMember |-> b.guild_member]] >>
                 ELSE <<>>) \o << [kind |-> "read", userId |-> id] >>
    IN  CASE calls[c].pc = "awaitRest" -> head
          [] calls[c].pc = "awaitDispatch" -> head \o mid
          [] OTHER -> head \o mid \o tail

\* C6: on a cache miss with a successful request the effects come in this order:
\* USER_PROFILE_FETCH_START, the REST GET of /users/<id>/profile, USER_UPDATE with
\* body.user, USER_PROFILE_FETCH_SUCCESS with the body, and, once that dispatch has
\* completed, GUILD_MEMBER_PROFILE_UPDATE iff options.guild_id and body.guild_member
\* are both present, and only then the read of UserProfileStore that is returned.
C6_EffectOrder ==
    \A c \in CallIds :
        (calls[c].pc \in {"awaitRest", "awaitDispatch", "returned"}
            /\ calls[c].atStart = Undefined) =>
            /\ effects[c] = ExpectedEffects(c)
            /\ calls[c].pc = "returned" => calls[c].result = Profile(calls[c].id, "fetch")

\* a call that missed the cache, got a guild member and returned after six effects
C6_Witness ==
    \E c \in CallIds :
        /\ calls[c].pc = "returned"
        /\ calls[c].atStart = Undefined
        /\ Len(effects[c]) = 6
        /\ effects[c][5].type = "GUILD_MEMBER_PROFILE_UPDATE"

StartCount(c) ==
    Cardinality({k \in DOMAIN effects[c] :
                    /\ effects[c][k].kind = "dispatch"
                    /\ effects[c][k].type = "USER_PROFILE_FETCH_START"
                    /\ effects[c][k].payload.userId = calls[c].id})

\* C7: a call issues a REST request exactly when the store had no profile for the id
\* when the call started; two calls for the same uncached id that have both started
\* before either response was handled have each dispatched their own
\* USER_PROFILE_FETCH_START and issued their own request.
C7_NoCoordination ==
    /\ \A c \in CallIds :
          calls[c].pc # "idle" =>
              (RestCount(effects[c]) = 1 <=> calls[c].atStart = Undefined)
    /\ \A c, d \in CallIds :
          (c # d /\ calls[c].pc # "idle" /\ calls[d].pc # "idle"
               /\ calls[c].id = calls[d].id
               /\ calls[c].atStart = Undefined /\ calls[d].atStart = Undefined) =>
              /\ StartCount(c) = 1 /\ RestCount(effects[c]) = 1
              /\ StartCount(d) = 1 /\ RestCount(effects[d]) = 1

\* two calls for the same uncached id, both waiting for their own response
C7_Witness ==
    /\ calls[1].pc = "awaitRest" /\ calls[2].pc = "awaitRest"
    /\ calls[1].id = calls[2].id
    /\ store[calls[1].id] = Undefined

\* C4: getUniqueUsername returns user.username when user.discriminator is exactly "0",
\* and user.tag for every other discriminator.
C4_UniqueUsername ==
    uname # Undefined =>
        /\ user.discriminator = "0" => uname = [t |-> "string", v |-> <<user.username>>]
        /\ user.discriminator # "0" =>
              uname = [t |-> "string", v |-> <<user.username, "#", user.discriminator>>]

\* a call on a user whose discriminator is all zeros but not "0"
C4_Witness == uname # Undefined /\ user.discriminator = "0000" /\ ucalls > 1

\* C8: once stop() has run and start() has not been called again, window.onekoInterval
\* and the element with id "oneko" are absent, also when stop() ran before the fetch
\* begun by start() had resolved.
C8_StoppedStaysClean ==
    stopped => (onekoInterval = NoTimer /\ timers = {} /\ onekoEls = 0)


====
